---- MODULE Spec2Model ----
(***************************************************************************)
(* Model of src/checkPeerDependencies.ts: the satisfaction classifier,     *)
(* the per-order report, findSolutions, and the bounded re-verification    *)
(* loop checkPeerDependencies <-> installPeerDependencies.                 *)
(*                                                                         *)
(* A string of the program is a TLA+ string; Chars spells it out as the     *)
(* sequence of its characters, on which concatenation, comparison, semver  *)
(* parsing and the yalc regular expression are computed.                   *)
(***************************************************************************)
EXTENDS Integers, Sequences, FiniteSets, TLC

\* ------------------------------------------------------------------ bounds
\* Longest list of peer-dependency edges the gatherer returns in the loop.
MaxDeps == 2

\* The observers of the loop count up to MaxCount.
MaxCount == 6

\* ----------------------------------------------------------------- strings
Absent == ""

\* The characters of every string the model uses.
Chars(s) ==
  CASE s = "" -> <<>>
    [] s = "a" -> <<"a">>
    [] s = "aa" -> <<"a", "a">>
    [] s = "b" -> <<"b">>
    [] s = "c" -> <<"c">>
    [] s = "d" -> <<"d">>
    [] s = "1.0.0" -> <<"1", ".", "0", ".", "0">>
    [] s = "1.5.0" -> <<"1", ".", "5", ".", "0">>
    [] s = "2.0.0" -> <<"2", ".", "0", ".", "0">>
    [] s = "^1.0.0" -> <<"^", "1", ".", "0", ".", "0">>
    [] s = "^2.0.0" -> <<"^", "2", ".", "0", ".", "0">>
    [] s = ">=1.0.0" -> <<">", "=", "1", ".", "0", ".", "0">>
    [] s = ">=2.0.0" -> <<">", "=", "2", ".", "0", ".", "0">>
    [] s = "<1.0.0" -> <<"<", "1", ".", "0", ".", "0">>
    [] s = "<2.0.0" -> <<"<", "2", ".", "0", ".", "0">>
    [] s = ">=1.0.0-0" -> <<">", "=", "1", ".", "0", ".", "0", "-", "0">>
    [] s = "latest" -> <<"l", "a", "t", "e", "s", "t">>
    [] s = "1.0.0-a1-yalc" ->
         <<"1", ".", "0", ".", "0", "-", "a", "1", "-", "y", "a", "l", "c">>
    [] s = "1.0.0-g1-yalc" ->
         <<"1", ".", "0", ".", "0", "-", "g", "1", "-", "y", "a", "l", "c">>
    [] s = "1.0.0--yalc" ->
         <<"1", ".", "0", ".", "0", "-", "-", "y", "a", "l", "c">>
    [] s = "1.0.0-a1-yalc1" ->
         <<"1", ".", "0", ".", "0", "-", "a", "1", "-", "y", "a", "l", "c", "1">>

\* Collation rank of a character: punctuation, then digits, then letters.
CharRank(c) ==
  CASE c = "-" -> 0 [] c = "." -> 1 [] c = "<" -> 2 [] c = "=" -> 3
    [] c = ">" -> 4 [] c = "^" -> 5
    [] c = "0" -> 10 [] c = "1" -> 11 [] c = "2" -> 12 [] c = "5" -> 15
    [] c = "a" -> 20 [] c = "b" -> 21 [] c = "c" -> 22 [] c = "d" -> 23
    [] c = "e" -> 24 [] c = "g" -> 26 [] c = "l" -> 31 [] c = "s" -> 38
    [] c = "t" -> 39 [] c = "y" -> 44

RECURSIVE CompareChars(_, _)
\* Lexicographic comparison of two character sequences: -1, 0 or 1.
CompareChars(s, t) ==
  IF s = <<>> THEN (IF t = <<>> THEN 0 ELSE -1)
  ELSE IF t = <<>> THEN 1
  ELSE IF CharRank(Head(s)) < CharRank(Head(t)) THEN -1
  ELSE IF CharRank(Head(s)) > CharRank(Head(t)) THEN 1
  ELSE CompareChars(Tail(s), Tail(t))

\* Array.prototype.includes
Includes(s, x) == \E i \in 1..Len(s) : s[i] = x

\* Array.prototype.sort with a comparator that compares the keys of two
\* elements by localeCompare, keys[i] being the key of s[i]. The sort is
\* stable: an element goes after every element of lower key and after the
\* earlier elements of equal key.
SortPos(keys, i) ==
  1 + Cardinality({j \in 1..Len(keys) :
        \/ CompareChars(keys[j], keys[i]) < 0
        \/ CompareChars(keys[j], keys[i]) = 0 /\ j < i})

ArraySort(s, keys) ==
  [k \in 1..Len(s) |-> s[CHOOSE i \in 1..Len(s) : SortPos(keys, i) = k]]

\* ------------------------------------------------------- semver and yalc
Digits == {"0", "1", "2", "5"}
HexChars == {"a", "b", "c", "d", "e", "f"} \cup Digits
DigitVal(c) == CASE c = "0" -> 0 [] c = "1" -> 1 [] c = "2" -> 2 [] c = "5" -> 5

\* A version is M.m.p or M.m.p-<prerelease>, with one-digit numbers.
IsVersionChars(s) ==
  /\ Len(s) >= 5
  /\ s[1] \in Digits /\ s[2] = "." /\ s[3] \in Digits /\ s[4] = "."
  /\ s[5] \in Digits
  /\ Len(s) > 5 => (s[6] = "-" /\ Len(s) >= 7)

VCore(s) == <<DigitVal(s[1]), DigitVal(s[3]), DigitVal(s[5])>>
VPre(s) == IF Len(s) > 5 THEN SubSeq(s, 7, Len(s)) ELSE <<>>

CompareCore(a, b) ==
  IF a[1] # b[1] THEN (IF a[1] < b[1] THEN -1 ELSE 1)
  ELSE IF a[2] # b[2] THEN (IF a[2] < b[2] THEN -1 ELSE 1)
  ELSE IF a[3] # b[3] THEN (IF a[3] < b[3] THEN -1 ELSE 1)
  ELSE 0

IsNumericId(p) == \A i \in 1..Len(p) : p[i] \in Digits

\* Precedence of two prerelease tags (one identifier each): a release is
\* above any prerelease, a numeric identifier below an alphanumeric one.
ComparePre(p, q) ==
  IF p = q THEN 0
  ELSE IF p = <<>> THEN 1
  ELSE IF q = <<>> THEN -1
  ELSE IF IsNumericId(p) /\ ~IsNumericId(q) THEN -1
  ELSE IF ~IsNumericId(p) /\ IsNumericId(q) THEN 1
  ELSE CompareChars(p, q)

\* semver.compare on the characters of two versions
CompareVersionChars(v, w) ==
  IF CompareCore(VCore(v), VCore(w)) # 0 THEN CompareCore(VCore(v), VCore(w))
  ELSE ComparePre(VPre(v), VPre(w))

SemverCompare(v, w) == CompareVersionChars(Chars(v), Chars(w))

\* A range is one comparator: "1.0.0", ">=1.0.0", "<2.0.0", "^1.0.0".
RangeOp(r) ==
  IF r = <<>> THEN "invalid"
  ELSE IF r[1] = "^" THEN "^"
  ELSE IF r[1] = "<" THEN "<"
  ELSE IF r[1] = ">" /\ Len(r) >= 2 /\ r[2] = "=" THEN ">="
  ELSE IF r[1] \in Digits THEN "="
  ELSE "invalid"

RangeVersion(r) ==
  CASE RangeOp(r) = "^" -> Tail(r)
    [] RangeOp(r) = "<" -> Tail(r)
    [] RangeOp(r) = ">=" -> Tail(Tail(r))
    [] OTHER -> r

IsValidRange(r) == RangeOp(r) # "invalid" /\ IsVersionChars(RangeVersion(r))

\* The first version outside ^M.m.p: the next major, or for 0.x the next
\* minor, or for 0.0.x the next patch.
CaretUpper(c) ==
  IF c[1] > 0 THEN <<c[1] + 1, 0, 0>>
  ELSE IF c[2] > 0 THEN <<0, c[2] + 1, 0>>
  ELSE <<0, 0, c[3] + 1>>

\* semver.satisfies on characters, without includePrerelease: a prerelease
\* version is admitted only by a comparator that itself carries a
\* prerelease on the same M.m.p; an invalid range or version gives false.
SatisfiesChars(v, r) ==
  /\ IsVersionChars(v)
  /\ IsValidRange(r)
  /\ LET w == RangeVersion(r)
         op == RangeOp(r)
     IN /\ VPre(v) # <<>> => (VPre(w) # <<>> /\ VCore(v) = VCore(w))
        /\ CASE op = "=" -> CompareVersionChars(v, w) = 0
             [] op = ">=" -> CompareVersionChars(v, w) >= 0
             [] op = "<" -> CompareVersionChars(v, w) < 0
             [] OTHER -> /\ CompareVersionChars(v, w) >= 0
                         /\ CompareCore(VCore(v), CaretUpper(VCore(w))) < 0

\* semver.satisfies with its two arguments exchanged.
SemverSatisfiesSwapped(version, range) ==
  SatisfiesChars(Chars(range), Chars(version))

\* semver.satisfies(version, range)
SemverSatisfies(version, range) == SatisfiesChars(Chars(version), Chars(range))

YalcSuffix == <<"-", "y", "a", "l", "c">>

\* /-.+-yalc$/: any tag before -yalc, hexadecimal or not.
YalcRegexAnyTag(s) ==
  LET n == Len(s)
  IN /\ n >= 7
     /\ SubSeq(s, n - 4, n) = YalcSuffix
     /\ \E i \in 1..(n - 6) : s[i] = "-"

\* /-[a-f0-9]+-yalc$/ matches the characters s.
YalcRegex(s) ==
  LET n == Len(s)
  IN /\ n >= 7
     /\ SubSeq(s, n - 4, n) = YalcSuffix
     /\ \E i \in 1..(n - 6) :
          /\ s[i] = "-"
          /\ \A k \in (i + 1)..(n - 5) : s[k] \in HexChars

\* applySemverInformation, dep carrying what getInstalledVersion(dep) gave.
applySemverInformation(dep) ==
  [name |-> dep.name, version |-> dep.version, depender |-> dep.depender,
   installedVersion |-> dep.installedVersion,
   semverSatisfies |-> IF dep.installedVersion # Absent
                       THEN SemverSatisfies(dep.installedVersion, dep.version)
                       ELSE FALSE,
   isYalc |-> YalcRegex(Chars(dep.installedVersion))]

\* gatheredDependencies.map(applySemverInformation)
getAllNestedPeerDependencies(gatheredDependencies) ==
  [i \in 1..Len(gatheredDependencies) |->
     applySemverInformation(gatheredDependencies[i])]

\* --------------------------------------------------------------- universe
\* One gathered edge together with what getInstalledVersion answers for it.
Dep(name, depender, range, installed) ==
  [name |-> name, version |-> range, depender |-> depender,
   installedVersion |-> installed]

SeqsUpTo(S, n) == UNION {[1..k -> S] : k \in 0..n}

\* The edges of the loop's project: c requires a and b, d requires a; a is
\* missing, b is missing, installed or linked by yalc.
LoopDeps ==
  {Dep("b", "c", "^1.0.0", v) : v \in {Absent, "1.0.0", "1.0.0-a1-yalc"}}
    \cup {Dep("a", dr, "^1.0.0", Absent) : dr \in {"c", "d"}}

\* Every answer getAllNestedPeerDependencies can give in the loop: the
\* gatherer's list, each record annotated by applySemverInformation.
Gatherings ==
  {getAllNestedPeerDependencies(g) : g \in SeqsUpTo(LoopDeps, MaxDeps)}

\* What the registry can publish for each package of the loop's project.
Registries == [{"a", "b"} -> SUBSET {"1.0.0"}]

OrderBys == {"depender", "dependee", "none"}
PackageManagers == {"npm", "yarn"}

\* options.verbose only selects console lines; the loop runs with it off.
CliOptions ==
  [orderBy : OrderBys, verbose : {FALSE}, install : BOOLEAN,
   findSolutions : BOOLEAN]
NoOptions ==
  [orderBy |-> "none", verbose |-> FALSE, install |-> FALSE,
   findSolutions |-> FALSE]

\* ------------------------------------------------------------- reporting
\* A depender key built the way the dependee key is.
DependerKeySwapped(dep) == Chars(dep.name) \o Chars(dep.depender)

\* `${dep.depender}${dep.name}` and `${dep.name}${dep.depender}`
DependerKey(dep) == Chars(dep.depender) \o Chars(dep.name)
DependeeKey(dep) == Chars(dep.name) \o Chars(dep.depender)

\* allNestedPeerDependencies after the in-place sort of lines 111-117.
OrderDeps(deps, orderBy) ==
  IF orderBy = "depender"
  THEN ArraySort(deps, [i \in 1..Len(deps) |-> DependerKey(deps[i])])
  ELSE IF orderBy = "dependee"
  THEN ArraySort(deps, [i \in 1..Len(deps) |-> DependeeKey(deps[i])])
  ELSE deps

NoLine == [layout |-> "none"]

\* The console line of one record, NoLine when nothing is printed.
ReportLine(dep, verbose, layout) ==
  IF dep.semverSatisfies
  THEN (IF verbose THEN [layout |-> layout, icon |-> "ok", dep |-> dep]
        ELSE NoLine)
  ELSE IF dep.isYalc THEN [layout |-> layout, icon |-> "yalc", dep |-> dep]
  ELSE IF dep.installedVersion # Absent
  THEN [layout |-> layout, icon |-> "wrong", dep |-> dep]
  ELSE [layout |-> layout, icon |-> "missing", dep |-> dep]

reportPeerDependencyStatusByDepender(dep, opts) ==
  ReportLine(dep, opts.verbose, "depender")
reportPeerDependencyStatusByDependee(dep, opts) ==
  ReportLine(dep, opts.verbose, "dependee")

IsLine(l) == l # NoLine

\* The lines printed by the forEach of lines 113 and 116, in order.
ReportAll(deps, opts) ==
  IF opts.orderBy = "depender"
  THEN SelectSeq([i \in 1..Len(deps) |->
                 reportPeerDependencyStatusByDepender(deps[i], opts)], IsLine)
  ELSE IF opts.orderBy = "dependee"
  THEN SelectSeq([i \in 1..Len(deps) |->
                 reportPeerDependencyStatusByDependee(deps[i], opts)], IsLine)
  ELSE <<>>

\* The records handed to a report function by those forEach, in order.
VisitedDeps(deps, opts) ==
  IF opts.orderBy = "depender" \/ opts.orderBy = "dependee" THEN deps
  ELSE <<>>

\* A problem filter that forgets isYalc.
IsProblemYalcToo(dep) == ~dep.semverSatisfies

IsProblem(dep) == ~dep.semverSatisfies /\ ~dep.isYalc

\* line 119
ProblemsOf(deps) == SelectSeq(deps, IsProblem)

\* -------------------------------------------- collaborators (./solution,
\* ./packageManager, ./packageUtils)
Null == ""

RECURSIVE UniqByName(_, _)
\* The first problem record of each distinct package name, in order.
UniqByName(acc, deps) ==
  IF deps = <<>> THEN acc
  ELSE UniqByName(
         IF \E i \in 1..Len(acc) : acc[i].name = Head(deps).name
         THEN acc ELSE Append(acc, Head(deps)),
         Tail(deps))

\* name@version for the highest published version that satisfies every
\* range declared for the name anywhere in allDeps, Null when none does.
findPossibleResolution(name, allDeps, published) ==
  LET ranges == {allDeps[i].version : i \in {j \in 1..Len(allDeps) :
                                                allDeps[j].name = name}}
      ok == {v \in published : \A r \in ranges : SemverSatisfies(v, r)}
  IN IF ok = {} THEN Null
     ELSE name \o "@" \o
          (CHOOSE v \in ok : \A w \in ok : SemverCompare(v, w) >= 0)

\* One Resolution per distinct problem package name.
findPossibleResolutions(probs, allDeps, registry) ==
  LET uniq == UniqByName(<<>>, probs)
  IN [i \in 1..Len(uniq) |->
        [problem |-> uniq[i],
         resolution |-> findPossibleResolution(uniq[i].name, allDeps,
                                               registry[uniq[i].name])]]

\* Every resolved package in exactly one command: npm installs all of them
\* with one command, yarn with one command per package.
getCommandLines(pm, withSolutions) ==
  IF withSolutions = <<>> THEN <<>>
  ELSE IF pm = "npm"
  THEN <<[pm |-> pm,
          packages |-> [i \in 1..Len(withSolutions) |->
                          withSolutions[i].resolution]]>>
  ELSE [i \in 1..Len(withSolutions) |->
          [pm |-> pm, packages |-> <<withSolutions[i].resolution>>]]

\* Two records are the same logical edge.
isSameDep(a, b) ==
  a.name = b.name /\ a.depender = b.depender /\ a.version = b.version

\* ---------------------------------------------------------- findSolutions
\* A filter that keeps every Resolution.
HasResolutionAny(r) == TRUE

\* line 60: r => r.resolution; line 61: r => !r.resolution
HasResolution(r) == r.resolution # Null
HasNoResolution(r) == r.resolution = Null

\* A reduce that concatenates every range, seen before or not.
ReduceRangesAll(acc, deps) ==
  acc \o [i \in 1..Len(deps) |-> deps[i].version]

RECURSIVE ReduceRanges(_, _)
\* .reduce((acc, dep) => acc.includes(dep.version) ? acc
\*                                                  : acc.concat(dep.version), [])
ReduceRanges(acc, deps) ==
  IF deps = <<>> THEN acc
  ELSE ReduceRanges(
         IF Includes(acc, Head(deps).version) THEN acc
         ELSE Append(acc, Head(deps).version),
         Tail(deps))

\* The ranges joined into the console.error line of one no-solution package.
peerDepRanges(name, allDeps) ==
  LET named(dep) == dep.name = name
  IN ReduceRanges(<<>>, SelectSeq(allDeps, named))

\* The console.error lines of the nosolution.forEach, in order.
Diagnostics(nosol, allDeps) ==
  [i \in 1..Len(nosol) |->
     [name |-> nosol[i].problem.name,
      ranges |-> peerDepRanges(nosol[i].problem.name, allDeps)]]

findSolutions(probs, allDeps, registry) ==
  LET rs == findPossibleResolutions(probs, allDeps, registry)
      nosol == SelectSeq(rs, HasNoResolution)
  IN [resolutions |-> rs,
      resolutionsWithSolutions |-> SelectSeq(rs, HasResolution),
      nosolution |-> nosol,
      diagnostics |-> Diagnostics(nosol, allDeps)]

\* ----------------------------------------------- installPeerDependencies
\* What a child process of exec can end with: success or a failure. exec
\* returns in both cases (shelljs does not throw without config.fatal).
ExitCodes == {0, 1}

\* A forEach that is left at the first failed command.
ForEachStopsAtFailure(commands, codes) ==
  /\ Len(codes) < Len(commands)
  /\ \A i \in 1..Len(codes) : codes[i] = 0

\* lines 83-87: commandLines.forEach has a command left to run, whatever
\* the commands before it ended with.
ForEachGoesOn(commands, codes) == Len(codes) < Len(commands)

IsUnsatisfied(dep) == ~dep.semverSatisfies

\* A re-check without the filter of line 89.
NewUnsatisfiedDepsUnfiltered(after, nosol) ==
  LET unknown(dep) == ~\E i \in 1..Len(nosol) : isSameDep(nosol[i].problem, dep)
  IN SelectSeq(after, unknown)

\* lines 88-90
NewUnsatisfiedDeps(after, nosol) ==
  LET unknown(dep) == ~\E i \in 1..Len(nosol) : isSameDep(nosol[i].problem, dep)
  IN SelectSeq(SelectSeq(after, IsUnsatisfied), unknown)

RecursionLimit == 5

\* A count that is never incremented.
IncrementNot(n) == n

\* ++recursiveCount
Increment(n) == n + 1

\* recursiveCount++ < 5: the comparison reads the count before the increment.
MayRecurseInclusive(n) == n <= RecursionLimit

\* The comparison stops one re-entry early.
MayRecurseEarly(n) == n + 1 < RecursionLimit

\* ++recursiveCount < 5, n being the incremented count
MayRecurse(n) == n < RecursionLimit

\* ------------------------------------------------------------------ state
VARIABLES
  pc,                         \* where the process is
  exitCode,                   \* the argument of process.exit, 0 before any
  options, packageManager,    \* the arguments of checkPeerDependencies
  recursiveCount,             \* line 24
  gathered,                   \* line 109, as returned
  allNestedPeerDependencies,  \* line 109, after the in-place sort
  visited,                    \* records handed to the report function, in order
  reported,                   \* console lines of lines 113 and 116
  problems,                   \* line 119
  resolutions,                \* line 59
  resolutionsWithSolutions,   \* line 60
  nosolution,                 \* line 61
  diagnostics,                \* console.error lines of lines 63-69
  commandLines,               \* lines 128 and 135
  printed,                    \* commands printed by line 140
  executed,                   \* commands run by line 85, in order
  exitCodes,                  \* what each exec of line 85 ended with
  regathered,                 \* line 88, before the filters
  newUnsatisfiedDeps,         \* lines 88-90
  installsInRun,              \* Installing steps since the top-level call
  reentries,                  \* calls of line 99 in this process
  noSolutionSeen              \* some pass of this run reported a no-solution problem

passVars ==
  <<gathered, allNestedPeerDependencies, visited, reported, problems>>
solutionVars ==
  <<resolutions, resolutionsWithSolutions, nosolution, diagnostics,
    commandLines>>
installVars == <<executed, exitCodes, regathered, newUnsatisfiedDeps>>

vars ==
  <<pc, exitCode, options, packageManager, recursiveCount, passVars,
    solutionVars, printed, installVars, installsInRun, reentries,
    noSolutionSeen>>

\* The observers installsInRun and reentries stop counting at MaxCount.
Count(n) == IF n < MaxCount THEN n + 1 ELSE n

InitControl ==
  /\ pc = "idle"
  /\ exitCode = 0
  /\ packageManager = "npm"
  /\ recursiveCount = 0
  /\ installsInRun = 0
  /\ reentries = 0
  /\ noSolutionSeen = FALSE

InitPass ==
  /\ allNestedPeerDependencies = <<>>
  /\ visited = <<>>
  /\ reported = <<>>
  /\ problems = <<>>

InitSolutions ==
  /\ resolutions = <<>>
  /\ resolutionsWithSolutions = <<>>
  /\ nosolution = <<>>
  /\ diagnostics = <<>>
  /\ commandLines = <<>>
  /\ printed = <<>>

InitInstall ==
  /\ executed = <<>>
  /\ exitCodes = <<>>
  /\ regathered = <<>>
  /\ newUnsatisfiedDeps = <<>>

Init ==
  /\ InitControl
  /\ options = NoOptions
  /\ gathered = <<>>
  /\ InitPass
  /\ InitSolutions
  /\ InitInstall

\* The top-level call checkPeerDependencies(packageManager, options).
Call(pm, opts) ==
  /\ pc = "idle"
  /\ pc' = "checking"
  /\ options' = opts
  /\ packageManager' = pm
  /\ UNCHANGED <<exitCode, recursiveCount, passVars, solutionVars, printed,
                 installVars, installsInRun, reentries, noSolutionSeen>>

\* OrderDeps and findSolutions, tabulated over the loop's universe.
Ordered == [o \in OrderBys |-> [g \in Gatherings |-> OrderDeps(g, o)]]
Solved ==
  [g \in {Ordered[o][h] : o \in OrderBys, h \in Gatherings} |->
     [registry \in Registries |-> findSolutions(ProblemsOf(g), g, registry)]]

\* Lines 109-119 of one pass: gather, sort, report, filter.
Report(g) ==
  /\ gathered' = g
  /\ allNestedPeerDependencies' = Ordered[options.orderBy][g]
  /\ visited' = VisitedDeps(Ordered[options.orderBy][g], options)
  /\ reported' = ReportAll(Ordered[options.orderBy][g], options)
  /\ problems' = ProblemsOf(Ordered[options.orderBy][g])

\* The locals of a pass that is over.
ForgetPass ==
  /\ gathered' = <<>>
  /\ allNestedPeerDependencies' = <<>>
  /\ visited' = <<>>
  /\ reported' = <<>>
  /\ problems' = <<>>

\* findSolutions is not called.
NoFindSolutions ==
  /\ resolutions' = <<>>
  /\ resolutionsWithSolutions' = <<>>
  /\ nosolution' = <<>>
  /\ diagnostics' = <<>>
  /\ commandLines' = <<>>

\* Lines 59-77 and the getCommandLines call that follows them.
FindSolutions(g, registry) ==
  LET sol == Solved[Ordered[options.orderBy][g]][registry]
  IN /\ resolutions' = sol.resolutions
     /\ resolutionsWithSolutions' = sol.resolutionsWithSolutions
     /\ nosolution' = sol.nosolution
     /\ diagnostics' = sol.diagnostics
     /\ commandLines' =
          getCommandLines(packageManager, sol.resolutionsWithSolutions)
     /\ noSolutionSeen' = (noSolutionSeen \/ sol.nosolution # <<>>)

\* An install branch that options.findSolutions enters too.
InstallBranchEither(opts) == opts.install \/ opts.findSolutions

\* line 126
InstallBranch(opts) == opts.install

\* line 133
FindSolutionsBranch(opts) == ~InstallBranch(opts) /\ opts.findSolutions

\* A command list tested without looking at its length.
HasCommandsAlways(commands) == TRUE

\* lines 130 and 137: if (commandLines.length)
HasCommands(commands) == Len(commands) > 0

\* Lines 109-124: no problems, "All peer dependencies are met", return.
CheckAllMet(g) ==
  /\ pc = "checking"
  /\ ProblemsOf(g) = <<>>
  /\ Report(g)
  /\ NoFindSolutions
  /\ pc' = "returned"
  /\ UNCHANGED <<exitCode, options, packageManager, recursiveCount, printed,
                 installVars, installsInRun, reentries, noSolutionSeen>>

\* Lines 109-131 with options.install and at least one command: up to the
\* call of installPeerDependencies, which is handed commandLines and
\* nosolution. The locals of the pass are never read again (line 131 returns
\* the result of the call) and are forgotten.
CheckInstall(g, registry) ==
  /\ pc = "checking"
  /\ InstallBranch(options)
  /\ ProblemsOf(g) # <<>>
  /\ FindSolutions(g, registry)
  /\ HasCommands(commandLines')
  /\ ForgetPass
  /\ pc' = "installing"
  /\ UNCHANGED <<exitCode, options, packageManager, recursiveCount, printed,
                 installVars, installsInRun, reentries>>

\* Lines 109-130 and 147 with options.install and no command.
CheckNoCommand(g, registry) ==
  /\ pc = "checking"
  /\ InstallBranch(options)
  /\ ProblemsOf(g) # <<>>
  /\ Report(g)
  /\ FindSolutions(g, registry)
  /\ ~HasCommands(commandLines')
  /\ pc' = "exited"
  /\ exitCode' = 1
  /\ UNCHANGED <<options, packageManager, recursiveCount, printed,
                 installVars, installsInRun, reentries>>

\* Lines 109-124, 133-142 and 147 with options.findSolutions and not install.
CheckFindSolutions(g, registry) ==
  /\ pc = "checking"
  /\ FindSolutionsBranch(options)
  /\ ProblemsOf(g) # <<>>
  /\ Report(g)
  /\ FindSolutions(g, registry)
  /\ printed' = commandLines'
  /\ pc' = "exited"
  /\ exitCode' = 1
  /\ UNCHANGED <<options, packageManager, recursiveCount, installVars,
                 installsInRun, reentries>>

\* Lines 109-124 and 143-147 with neither option.
CheckHint(g) ==
  /\ pc = "checking"
  /\ ~InstallBranch(options)
  /\ ~FindSolutionsBranch(options)
  /\ ProblemsOf(g) # <<>>
  /\ Report(g)
  /\ NoFindSolutions
  /\ pc' = "exited"
  /\ exitCode' = 1
  /\ UNCHANGED <<options, packageManager, recursiveCount, printed,
                 installVars, installsInRun, reentries, noSolutionSeen>>

\* installPeerDependencies, lines 80-90: run every command in order, then
\* re-gather and keep the unsatisfied records that are no known no-solution
\* problem. after is what getAllNestedPeerDependencies answers once the
\* commands have run.
Install(after) ==
  /\ pc = "installing"
  /\ pc' = "installed"
  /\ executed' = commandLines
  /\ exitCodes' \in [1..Len(commandLines) -> ExitCodes]
  /\ regathered' = after
  /\ newUnsatisfiedDeps' = NewUnsatisfiedDeps(after, nosolution)
  /\ installsInRun' = Count(installsInRun)
  /\ UNCHANGED <<exitCode, options, packageManager, recursiveCount, passVars,
                 solutionVars, printed, reentries, noSolutionSeen>>

\* installPeerDependencies, lines 96-99: new unsatisfied records below the
\* limit, checkPeerDependencies is called again; the locals of
\* installPeerDependencies are never read again and are forgotten.
Reenter ==
  /\ pc = "installed"
  /\ Len(newUnsatisfiedDeps) > 0
  /\ MayRecurse(Increment(recursiveCount))
  /\ recursiveCount' = Increment(recursiveCount)
  /\ pc' = "checking"
  /\ reentries' = Count(reentries)
  /\ NoFindSolutions
  /\ executed' = <<>>
  /\ exitCodes' = <<>>
  /\ regathered' = <<>>
  /\ newUnsatisfiedDeps' = <<>>
  /\ UNCHANGED <<exitCode, options, packageManager, passVars, printed,
                 installsInRun, noSolutionSeen>>

\* installPeerDependencies, lines 96-102: new unsatisfied records at the
\* limit, process.exit(5).
Abort ==
  /\ pc = "installed"
  /\ Len(newUnsatisfiedDeps) > 0
  /\ ~MayRecurse(Increment(recursiveCount))
  /\ recursiveCount' = Increment(recursiveCount)
  /\ pc' = "exited"
  /\ exitCode' = 5
  /\ UNCHANGED <<options, packageManager, passVars, solutionVars, printed,
                 installVars, installsInRun, reentries, noSolutionSeen>>

\* installPeerDependencies, lines 96 and 105: no new unsatisfied record,
\* return; checkPeerDependencies returns with it (line 131).
Return ==
  /\ pc = "installed"
  /\ ~(Len(newUnsatisfiedDeps) > 0)
  /\ pc' = "returned"
  /\ UNCHANGED <<exitCode, options, packageManager, recursiveCount, passVars,
                 solutionVars, printed, installVars, installsInRun, reentries,
                 noSolutionSeen>>

\* A counter that every top-level call starts again.
CounterResetAtCall(count) == 0

\* line 24: recursiveCount is a variable of the module, set when the module
\* is loaded; a call of checkPeerDependencies finds it as the last one left
\* it.
CounterAtCall(count) == count

\* One more top-level call checkPeerDependencies(packageManager, options) in
\* the same process, after one that returned: new locals, the same module
\* variable.
CallAgain(pm, opts) ==
  /\ pc = "returned"
  /\ pc' = "checking"
  /\ options' = opts
  /\ packageManager' = pm
  /\ recursiveCount' = CounterAtCall(recursiveCount)
  /\ ForgetPass
  /\ NoFindSolutions
  /\ executed' = <<>>
  /\ exitCodes' = <<>>
  /\ regathered' = <<>>
  /\ newUnsatisfiedDeps' = <<>>
  /\ installsInRun' = 0
  /\ noSolutionSeen' = FALSE
  /\ UNCHANGED <<exitCode, printed, reentries>>

\* The answers getAllNestedPeerDependencies can give when it is called, which
\* is in phase at; no call, no answer.
GatheringsAt(at) == IF pc = at THEN Gatherings ELSE {}

Next ==
  \/ \E pm \in PackageManagers, opts \in CliOptions : Call(pm, opts)
  \/ \E g \in GatheringsAt("checking") : CheckAllMet(g)
  \/ \E g \in GatheringsAt("checking"), registry \in Registries :
        CheckInstall(g, registry)
  \/ \E g \in GatheringsAt("checking"), registry \in Registries :
        CheckNoCommand(g, registry)
  \/ \E g \in GatheringsAt("checking"), registry \in Registries :
        CheckFindSolutions(g, registry)
  \/ \E g \in GatheringsAt("checking") : CheckHint(g)
  \/ \E after \in GatheringsAt("installing") : Install(after)
  \/ Reenter
  \/ Abort
  \/ Return

Spec == Init /\ [][Next]_vars

Phases == {"idle", "checking", "installing", "installed", "returned", "exited"}

Terminated == pc \in {"returned", "exited"}

\* The process leaves the phase it is in.
LeavePhase == ~Terminated /\ pc' \in Phases

\* Every external call returns (gather, installed-version lookup, resolution,
\* exec): the process does not stay for ever in a phase that is not terminal.
\* Every step of Next changes pc, so this is weak fairness of Next wherever
\* Next is enabled.
FairSpec == Spec /\ WF_pc(LeavePhase)

\* ------------------------------------------------- properties of the loop
\* A record that is unsatisfied and not a yalc install.
IsHardFailure(dep) == ~dep.semverSatisfies /\ ~dep.isYalc

NoHardFailure(deps) == \A i \in 1..Len(deps) : ~IsHardFailure(deps[i])

AllSatisfied(deps) == \A i \in 1..Len(deps) : deps[i].semverSatisfies

\* Some record is unsatisfied, and every unsatisfied record is a yalc install.
OnlyYalcUnsatisfied(deps) ==
  NoHardFailure(deps) /\ ~AllSatisfied(deps)

\* C1: a run never makes a 6th Installing step, and a 5th Installing step
\* that still finds new unsatisfied records stops the process with exit code
\* 5 without re-entering checkPeerDependencies.
C1_NeverSixthPass ==
  [][/\ installsInRun' <= 5
     /\ (pc = "installed" /\ installsInRun = 5 /\ newUnsatisfiedDeps # <<>>)
          => (pc' = "exited" /\ exitCode' = 5 /\ reentries' = reentries)]_vars

\* The 5th Installing step found new unsatisfied records and the process
\* exited with 5.
C1_Witness ==
  /\ pc = "exited"
  /\ exitCode = 5
  /\ installsInRun = 5
  /\ newUnsatisfiedDeps # <<>>

\* C2: every run in which findSolutions reported a no-solution problem ends
\* with process.exit(1): not with a normal return, not with exit code 5.
C2_NoSolutionEndsExitOne ==
  (Terminated /\ noSolutionSeen) => (pc = "exited" /\ exitCode = 1)

\* C3: when the re-check of the first Installing step finds every record
\* satisfied, installPeerDependencies returns: no exit code, no re-entry,
\* no increment of recursiveCount, no second Installing step.
C3_CleanRecheckReturns ==
  [][(pc = "installed" /\ installsInRun = 1 /\ AllSatisfied(regathered))
        => /\ pc' = "returned"
           /\ exitCode' = 0
           /\ installsInRun' = 1
           /\ reentries' = reentries
           /\ recursiveCount' = recursiveCount]_vars

\* A run that returned after one Installing step whose commands ran and
\* whose re-check gathered satisfied records only.
C3_Witness ==
  /\ pc = "returned"
  /\ installsInRun = 1
  /\ executed # <<>>
  /\ regathered # <<>>
  /\ AllSatisfied(regathered)
  /\ recursiveCount = 0

\* C4: a pass whose records hold no unsatisfied non-yalc record returns
\* without an exit code, without resolutions or commands, printed or
\* executed; a pass that goes on to install holds such a record.
C4_NoProblemsReturns ==
  [][/\ (/\ pc = "checking"
         /\ pc' \in {"returned", "exited"}
         /\ NoHardFailure(allNestedPeerDependencies'))
          => /\ pc' = "returned"
             /\ exitCode' = exitCode
             /\ resolutions' = <<>>
             /\ diagnostics' = <<>>
             /\ commandLines' = <<>>
             /\ printed' = printed
             /\ executed' = executed
             /\ installsInRun' = installsInRun
     /\ (pc = "checking" /\ pc' = "installing")
          => \E i \in 1..Len(resolutions') :
                IsHardFailure(resolutions'[i].problem)]_vars

\* A recursive pass that gathered an unsatisfied yalc record and no other
\* unsatisfied record, and returned.
C4_Witness ==
  /\ pc = "returned"
  /\ reentries >= 1
  /\ OnlyYalcUnsatisfied(allNestedPeerDependencies)

\* C5: without options.install a pass with an unsatisfied non-yalc record
\* ends with process.exit(1); no command is ever executed, no Installing
\* step is made and exit code 5 is never produced.
C5_NoInstallNoExecution ==
  [][/\ (/\ pc = "checking"
         /\ ~options.install
         /\ ~NoHardFailure(allNestedPeerDependencies'))
          => (pc' = "exited" /\ exitCode' = 1)
     /\ ~options'.install
          => /\ pc' \notin {"installing", "installed"}
             /\ executed' = <<>>
             /\ installsInRun' = 0
             /\ exitCode' # 5]_vars

\* findSolutions mode printed its commands and exited with 1, nothing run.
C5_Witness ==
  /\ pc = "exited"
  /\ exitCode = 1
  /\ ~options.install
  /\ options.findSolutions
  /\ printed # <<>>
  /\ executed = <<>>

\* C6: a process that is not in a terminal state (normal return, exit 1 or
\* exit 5) can always take a step, and every pass of checkPeerDependencies is
\* followed by a terminal state, whatever the collaborators answer.
C6_Terminates ==
  /\ [](Terminated \/ ENABLED Next)
  /\ (pc = "checking") ~> Terminated

\* A run that re-entered checkPeerDependencies four times and returned.
C6_Witness ==
  /\ pc = "returned"
  /\ reentries = 4
  /\ installsInRun = 5

\* C7: exit code 5 is produced only when new unsatisfied records persist
\* and checkPeerDependencies has been re-entered 5 times.
C7_AbortAfterFiveReentries ==
  exitCode = 5 => (newUnsatisfiedDeps # <<>> /\ reentries = 5)

\* C7, amended: exit code 5 is produced only when new unsatisfied records
\* persist and recursiveCount has reached 5, which is after 4 re-entries of
\* checkPeerDependencies.
C7_AbortAfterFourReentries ==
  exitCode = 5
    => /\ pc = "exited"
       /\ newUnsatisfiedDeps # <<>>
       /\ recursiveCount = 5
       /\ reentries = 4

\* The process exited with 5 on the increment that followed the 4th re-entry.
C7_Witness ==
  /\ exitCode = 5
  /\ recursiveCount = 5
  /\ reentries = 4

\* C8: a yalc record is never the problem of a Resolution, and when the only
\* unsatisfied records are yalc installs neither a pass nor the re-check
\* after Installing installs again, increments recursiveCount or exits.
C8_YalcNeverHardFailure ==
  [][/\ \A i \in 1..Len(resolutions') : ~resolutions'[i].problem.isYalc
     /\ (/\ pc = "checking"
         /\ pc' \in {"returned", "exited"}
         /\ OnlyYalcUnsatisfied(allNestedPeerDependencies'))
          => (pc' = "returned" /\ exitCode' = 0)
     /\ (pc = "installed" /\ OnlyYalcUnsatisfied(regathered))
          => /\ pc' = "returned"
             /\ exitCode' = 0
             /\ recursiveCount' = recursiveCount]_vars

\* Every unsatisfied record of deps is of a package that has a Resolution
\* without solution in nosol.
OnlyKnownNoSolution(deps, nosol) ==
  \A i \in 1..Len(deps) :
     ~deps[i].semverSatisfies
       => \E k \in 1..Len(nosol) : nosol[k].problem.name = deps[i].name

\* C13: when every record still unsatisfied after an Installing step is of
\* a package this pass found to have no solution, no record is new:
\* installPeerDependencies returns without re-entering checkPeerDependencies
\* and without incrementing recursiveCount.
C13_KnownNoSolutionNotNew ==
  [][(pc = "installed" /\ OnlyKnownNoSolution(regathered, nosolution))
        => /\ newUnsatisfiedDeps = <<>>
           /\ pc' = "returned"
           /\ recursiveCount' = recursiveCount
           /\ reentries' = reentries]_vars

\* C14: installPeerDependencies is entered only with at least one command;
\* a pass with options.install whose resolutions give no command executes
\* nothing, gathers nothing again, leaves recursiveCount alone and ends with
\* process.exit(1).
C14_NoCommandNoInstall ==
  [][/\ pc' = "installing" => commandLines' # <<>>
     /\ (/\ pc = "checking"
         /\ options.install
         /\ resolutions' # <<>>
         /\ commandLines' = <<>>)
          => /\ pc' = "exited"
             /\ exitCode' = 1
             /\ executed' = executed
             /\ regathered' = regathered
             /\ installsInRun' = installsInRun
             /\ reentries' = reentries
             /\ recursiveCount' = recursiveCount]_vars

\* A pass with options.install in which every problem had no solution and
\* the process exited with 1, nothing executed.
C14_Witness ==
  /\ pc = "exited"
  /\ exitCode = 1
  /\ options.install
  /\ nosolution # <<>>
  /\ Len(nosolution) = Len(resolutions)
  /\ commandLines = <<>>
  /\ executed = <<>>

\* The elements of a sequence.
Elements(s) == {s[i] : i \in 1..Len(s)}

\* The packages named by a list of commands.
PackagesOf(commands) ==
  UNION {Elements(commands[i].packages) : i \in 1..Len(commands)}

\* C15: the Resolutions of a pass are split into those with a version and
\* those without, each Resolution in exactly one of the two lists, and every
\* package of a synthesized, printed or executed command is the version of a
\* Resolution that has one, never of a no-solution package.
C15_PartitionAndCommands ==
  /\ \A r \in Elements(resolutions) :
       /\ r \in Elements(resolutionsWithSolutions) <=> r.resolution # Null
       /\ r \in Elements(nosolution) <=> r.resolution = Null
  /\ Elements(resolutionsWithSolutions) \cup Elements(nosolution)
       = Elements(resolutions)
  /\ Elements(resolutionsWithSolutions) \cap Elements(nosolution) = {}
  /\ Len(resolutionsWithSolutions) + Len(nosolution) = Len(resolutions)
  /\ \A p \in PackagesOf(commandLines) \cup PackagesOf(printed)
                \cup PackagesOf(executed) :
       /\ p # Null
       /\ \E r \in Elements(resolutionsWithSolutions) :
            /\ r.resolution = p
            /\ \A n \in Elements(nosolution) : n.problem.name # r.problem.name

\* A pass with a resolved and a no-solution package whose command was
\* executed.
C15_Witness ==
  /\ pc = "installed"
  /\ resolutionsWithSolutions # <<>>
  /\ nosolution # <<>>
  /\ executed # <<>>

\* ------------------------------------- several top-level calls, one process
\* Every top-level call asks for an install, the only branch that reaches
\* installPeerDependencies and with it the counter; options.findSolutions is
\* then never read.
ProcessOptions == {opts \in CliOptions : opts.install /\ ~opts.findSolutions}

NextProcess ==
  \/ \E pm \in PackageManagers, opts \in ProcessOptions : Call(pm, opts)
  \/ \E g \in GatheringsAt("checking") : CheckAllMet(g)
  \/ \E g \in GatheringsAt("checking"), registry \in Registries :
        CheckInstall(g, registry)
  \/ \E g \in GatheringsAt("checking"), registry \in Registries :
        CheckNoCommand(g, registry)
  \/ \E after \in GatheringsAt("installing") : Install(after)
  \/ Reenter
  \/ Abort
  \/ Return
  \/ \E pm \in PackageManagers, opts \in ProcessOptions : CallAgain(pm, opts)

SpecProcess == Init /\ [][NextProcess]_vars

\* C17: recursiveCount starts at 0, stays within 0..5, changes only by
\* growing by 1, and grows exactly in the step that follows an Installing
\* step with at least one new unsatisfied record; no return and no later
\* top-level call resets it, so it counts the re-entries of the whole
\* process and process.exit(5) comes with the fifth increment of the
\* process, whichever call it falls in.
C17_SharedBudget ==
  /\ recursiveCount = 0
  /\ [](/\ recursiveCount \in 0..RecursionLimit
        /\ recursiveCount = reentries + (IF exitCode = 5 THEN 1 ELSE 0)
        /\ exitCode = 5 <=> recursiveCount = RecursionLimit)
  /\ [][/\ recursiveCount' \in {recursiveCount, recursiveCount + 1}
        /\ recursiveCount' = recursiveCount + 1
             <=> (pc = "installed" /\ newUnsatisfiedDeps # <<>>)
        /\ (pc = "returned" /\ pc' = "checking")
             => /\ recursiveCount' = recursiveCount
                /\ installsInRun' = 0]_vars

\* A later top-level call that found the counter at 4 ended with
\* process.exit(5) at its first Installing step.
C17_Witness ==
  /\ pc = "exited"
  /\ exitCode = 5
  /\ recursiveCount = 5
  /\ installsInRun = 1

\* ------------------------------------------------ findSolutions on its own
\* Edges with two ranges and two dependers for a, two ranges for b; one edge
\* of a is satisfied.
SolutionDeps ==
  {Dep("a", dr, r, Absent) : dr \in {"c", "d"}, r \in {"^1.0.0", "^2.0.0"}}
    \cup {Dep("b", "c", r, Absent) : r \in {"^1.0.0", "^2.0.0"}}
    \cup {Dep("a", "d", "^1.0.0", "1.0.0")}

\* The lists findSolutions is called with: line 121 has seen a problem.
SolutionLists ==
  {l \in {getAllNestedPeerDependencies(g) :
            g \in SeqsUpTo(SolutionDeps, MaxDeps + 1)} :
     ProblemsOf(l) # <<>>}

SolutionRegistries == [{"a", "b"} -> SUBSET {"1.0.0", "2.0.0"}]

InitSolve ==
  /\ InitControl
  /\ options = NoOptions
  /\ gathered \in SolutionLists
  /\ allNestedPeerDependencies = gathered
  /\ visited = <<>>
  /\ reported = <<>>
  /\ problems = ProblemsOf(gathered)
  /\ InitSolutions
  /\ InitInstall

\* One call findSolutions(problems, allNestedPeerDependencies), lines 55-77.
Solve(registry) ==
  /\ pc = "idle"
  /\ pc' = "solved"
  /\ LET sol == findSolutions(problems, allNestedPeerDependencies, registry)
     IN /\ resolutions' = sol.resolutions
        /\ resolutionsWithSolutions' = sol.resolutionsWithSolutions
        /\ nosolution' = sol.nosolution
        /\ diagnostics' = sol.diagnostics
  /\ UNCHANGED <<exitCode, options, packageManager, recursiveCount, passVars,
                 commandLines, printed, installVars, installsInRun, reentries,
                 noSolutionSeen>>

NextSolve == \E registry \in SolutionRegistries : Solve(registry)

SpecSolutions == InitSolve /\ [][NextSolve]_vars

\* The positions of the records named name in the full list.
Named(name) ==
  {j \in 1..Len(allNestedPeerDependencies) :
     allNestedPeerDependencies[j].name = name}

\* The first record named name that carries range r.
FirstWith(name, r) ==
  CHOOSE j \in Named(name) :
    /\ allNestedPeerDependencies[j].version = r
    /\ \A k \in Named(name) :
         allNestedPeerDependencies[k].version = r => j <= k

\* C9: findSolutions prints one diagnostic per no-solution Resolution, in
\* their order, naming its package; its ranges are the ranges of every
\* record of that name in the full list, each once, in order of first
\* appearance; every Resolution is either diagnosed or kept with its solution.
C9_Diagnostics ==
  pc = "solved" =>
    /\ Len(diagnostics) = Len(nosolution)
    /\ \A i \in 1..Len(nosolution) :
         LET name == nosolution[i].problem.name
             ranges == diagnostics[i].ranges
         IN /\ diagnostics[i].name = name
            /\ nosolution[i].resolution = Null
            /\ \A j \in Named(name) :
                 \E k \in 1..Len(ranges) :
                    ranges[k] = allNestedPeerDependencies[j].version
            /\ \A k \in 1..Len(ranges) :
                 \E j \in Named(name) :
                    ranges[k] = allNestedPeerDependencies[j].version
            /\ \A k1, k2 \in 1..Len(ranges) :
                 k1 < k2 => /\ ranges[k1] # ranges[k2]
                            /\ FirstWith(name, ranges[k1])
                                 < FirstWith(name, ranges[k2])
    /\ Len(resolutions) = Len(nosolution) + Len(resolutionsWithSolutions)
    /\ \A i \in 1..Len(resolutions) :
         IF resolutions[i].resolution = Null
         THEN \E k \in 1..Len(diagnostics) :
                 diagnostics[k].name = resolutions[i].problem.name
         ELSE \E k \in 1..Len(resolutionsWithSolutions) :
                 resolutionsWithSolutions[k] = resolutions[i]

\* A package without solution whose range is required by two dependers and
\* printed once, next to a package that has a solution.
C9_Witness ==
  /\ pc = "solved"
  /\ Len(resolutionsWithSolutions) >= 1
  /\ \E i \in 1..Len(diagnostics) :
       /\ Cardinality(Named(diagnostics[i].name)) > Len(diagnostics[i].ranges)
       /\ \E j, k \in Named(diagnostics[i].name) :
            allNestedPeerDependencies[j].depender
              # allNestedPeerDependencies[k].depender

\* ---------------------------------------------------- the report on its own
\* Edges whose keys collide: depender "a" with name "aa" and depender "aa"
\* with name "a" both give "aaa".
ReportDeps ==
  {Dep(n, dr, "^1.0.0", v) :
     n \in {"a", "aa"}, dr \in {"a", "aa", "b"}, v \in {Absent, "1.0.0"}}

ReportLists ==
  {getAllNestedPeerDependencies(g) :
     g \in SeqsUpTo({d \in ReportDeps : d.name # d.depender}, MaxDeps + 1)}

ReportOptions ==
  [orderBy : OrderBys, verbose : BOOLEAN, install : {FALSE},
   findSolutions : {FALSE}]

InitReport ==
  /\ InitControl
  /\ options \in ReportOptions
  /\ gathered \in ReportLists
  /\ InitPass
  /\ InitSolutions
  /\ InitInstall

\* Lines 109-119 of one pass, the list of line 109 being gathered.
ReportPass ==
  /\ pc = "idle"
  /\ pc' = "reported"
  /\ allNestedPeerDependencies' = OrderDeps(gathered, options.orderBy)
  /\ visited' = VisitedDeps(OrderDeps(gathered, options.orderBy), options)
  /\ reported' = ReportAll(OrderDeps(gathered, options.orderBy), options)
  /\ problems' = ProblemsOf(OrderDeps(gathered, options.orderBy))
  /\ UNCHANGED <<exitCode, options, packageManager, recursiveCount, gathered,
                 solutionVars, printed, installVars, installsInRun, reentries,
                 noSolutionSeen>>

NextReport == ReportPass

SpecReport == InitReport /\ [][NextReport]_vars

\* The key the claim sorts by: depender ++ name or name ++ depender.
ClaimedKey(dep) ==
  IF options.orderBy = "depender"
  THEN Chars(dep.depender) \o Chars(dep.name)
  ELSE Chars(dep.name) \o Chars(dep.depender)

\* C10: with orderBy depender or dependee the records are reported in a
\* permutation of the gathered list that ascends by the key, records of equal
\* keys in their gathered order; with another orderBy the list keeps its
\* order and no record is reported.
C10_ReportOrder ==
  pc = "reported" =>
    IF options.orderBy \in {"depender", "dependee"}
    THEN /\ allNestedPeerDependencies = visited
         /\ Len(visited) = Len(gathered)
         /\ \E p \in Permutations(1..Len(gathered)) :
              /\ \A i \in 1..Len(gathered) : visited[i] = gathered[p[i]]
              /\ \A i, j \in 1..Len(gathered) :
                   i < j =>
                     LET c == CompareChars(ClaimedKey(visited[i]),
                                           ClaimedKey(visited[j]))
                     IN c < 0 \/ (c = 0 /\ p[i] < p[j])
    ELSE /\ allNestedPeerDependencies = gathered
         /\ visited = <<>>
         /\ reported = <<>>

\* A report by depender that reordered the list and holds two different
\* records of equal keys.
C10_Witness ==
  /\ pc = "reported"
  /\ options.orderBy = "depender"
  /\ visited # gathered
  /\ \E i, j \in 1..Len(visited) :
       /\ i < j
       /\ visited[i] # visited[j]
       /\ ClaimedKey(visited[i]) = ClaimedKey(visited[j])

\* ------------------------------------------- the classification on its own
ClassifyRanges ==
  {"^1.0.0", ">=2.0.0", "<2.0.0", "1.0.0", ">=1.0.0-0", "latest"}

YalcLike ==
  {"1.0.0-a1-yalc", "1.0.0-g1-yalc", "1.0.0--yalc", "1.0.0-a1-yalc1"}

\* Edges with every range against absent and released versions, and two
\* ranges against versions that end, or nearly end, like a yalc install.
ClassifyDeps ==
  {Dep("a", "c", r, v) :
     r \in ClassifyRanges, v \in {Absent, "1.0.0", "1.5.0", "2.0.0"}}
    \cup {Dep("a", "c", r, v) : r \in {"^1.0.0", ">=1.0.0-0"}, v \in YalcLike}

\* gathered holds gatheredDependencies of line 11, each record with what
\* getInstalledVersion answers for it.
InitClassify ==
  /\ InitControl
  /\ options = NoOptions
  /\ gathered \in SeqsUpTo(ClassifyDeps, MaxDeps)
  /\ InitPass
  /\ InitSolutions
  /\ InitInstall

\* One call getAllNestedPeerDependencies(options), lines 10-22.
Classify ==
  /\ pc = "idle"
  /\ pc' = "classified"
  /\ allNestedPeerDependencies' = getAllNestedPeerDependencies(gathered)
  /\ UNCHANGED <<exitCode, options, packageManager, recursiveCount, gathered,
                 visited, reported, problems, solutionVars, printed,
                 installVars, installsInRun, reentries, noSolutionSeen>>

NextClassify == Classify

SpecClassify == InitClassify /\ [][NextClassify]_vars

\* The pairs <<installed version, range>> of ClassifyDeps for which
\* semver.satisfies answers true: "latest" is no range, and a prerelease
\* version is admitted only by >=1.0.0-0.
Satisfying ==
  {<<"1.0.0", "^1.0.0">>, <<"1.0.0", "<2.0.0">>, <<"1.0.0", "1.0.0">>,
   <<"1.0.0", ">=1.0.0-0">>,
   <<"1.5.0", "^1.0.0">>, <<"1.5.0", "<2.0.0">>, <<"1.5.0", ">=1.0.0-0">>,
   <<"2.0.0", ">=2.0.0">>, <<"2.0.0", ">=1.0.0-0">>}
    \cup {<<v, ">=1.0.0-0">> : v \in YalcLike}

\* The installed versions of ClassifyDeps that end with -<hex digits>-yalc.
EndingWithHexYalc == {"1.0.0-a1-yalc"}

\* The classified list is the gathered list, record by record, with the two
\* flags added.
Annotated ==
  /\ Len(allNestedPeerDependencies) = Len(gathered)
  /\ \A i \in 1..Len(gathered) :
       /\ allNestedPeerDependencies[i].name = gathered[i].name
       /\ allNestedPeerDependencies[i].depender = gathered[i].depender
       /\ allNestedPeerDependencies[i].version = gathered[i].version
       /\ allNestedPeerDependencies[i].installedVersion
            = gathered[i].installedVersion

\* C11: every gathered record is annotated, whatever the other records of
\* the batch are, and its semverSatisfies is true exactly when an installed
\* version is present and satisfies the record's range.
C11_SemverSatisfies ==
  pc = "classified" =>
    /\ Annotated
    /\ \A i \in 1..Len(allNestedPeerDependencies) :
         LET dep == allNestedPeerDependencies[i]
         IN dep.semverSatisfies
              <=> /\ dep.installedVersion # Absent
                  /\ <<dep.installedVersion, dep.version>> \in Satisfying

\* A batch with a record without installed version, marked unsatisfied, and
\* after it a record marked satisfied.
C11_Witness ==
  /\ pc = "classified"
  /\ \E i, j \in 1..Len(allNestedPeerDependencies) :
       /\ i < j
       /\ allNestedPeerDependencies[i].installedVersion = Absent
       /\ ~allNestedPeerDependencies[i].semverSatisfies
       /\ allNestedPeerDependencies[j].semverSatisfies

\* C12: isYalc is true exactly when the installed version ends with
\* -<hex digits>-yalc, whatever semverSatisfies is; an absent installed
\* version gives false.
C12_IsYalc ==
  pc = "classified" =>
    \A i \in 1..Len(allNestedPeerDependencies) :
       LET dep == allNestedPeerDependencies[i]
       IN /\ dep.isYalc <=> dep.installedVersion \in EndingWithHexYalc
          /\ dep.installedVersion = Absent => ~dep.isYalc

\* A batch with the same yalc install once satisfied and once unsatisfied.
C12_Witness ==
  /\ pc = "classified"
  /\ \E i, j \in 1..Len(allNestedPeerDependencies) :
       /\ allNestedPeerDependencies[i].isYalc
       /\ allNestedPeerDependencies[i].semverSatisfies
       /\ allNestedPeerDependencies[j].isYalc
       /\ ~allNestedPeerDependencies[j].semverSatisfies

\* ------------------------------------- installPeerDependencies on its own
\* The most Resolutions with a solution an Installing step starts from.
MaxCommands == MaxDeps + 1

\* Resolutions with a solution, one per package.
ExecResolutions ==
  {[problem |-> applySemverInformation(Dep(n, "d", "^1.0.0", Absent)),
    resolution |-> n \o "@1.0.0"] : n \in {"a", "b", "c"}}

\* Lists of them with no package twice, not empty: line 130 has seen a
\* command.
ExecLists ==
  {l \in SeqsUpTo(ExecResolutions, MaxCommands) :
     /\ l # <<>>
     /\ \A i, j \in 1..Len(l) : l[i] = l[j] => i = j}

\* installPeerDependencies has just been called (line 131).
InitExec ==
  /\ pc = "installing"
  /\ exitCode = 0
  /\ options = [NoOptions EXCEPT !.install = TRUE]
  /\ packageManager \in PackageManagers
  /\ recursiveCount = 0
  /\ installsInRun = 0
  /\ reentries = 0
  /\ noSolutionSeen = FALSE
  /\ gathered = <<>>
  /\ InitPass
  /\ resolutions \in ExecLists
  /\ resolutionsWithSolutions = resolutions
  /\ nosolution = <<>>
  /\ diagnostics = <<>>
  /\ commandLines = getCommandLines(packageManager, resolutions)
  /\ printed = <<>>
  /\ InitInstall

\* lines 83-87, one turn of the forEach: exec runs the next command and
\* returns when the child process has ended, with code.
Exec(code) ==
  /\ pc = "installing"
  /\ ForEachGoesOn(commandLines, exitCodes)
  /\ executed' = Append(executed, commandLines[Len(executed) + 1])
  /\ exitCodes' = Append(exitCodes, code)
  /\ UNCHANGED <<pc, exitCode, options, packageManager, recursiveCount,
                 passVars, solutionVars, printed, regathered,
                 newUnsatisfiedDeps, installsInRun, reentries,
                 noSolutionSeen>>

\* lines 88-90, after the forEach: the records are gathered and classified
\* again and filtered.
Regather(after) ==
  /\ pc = "installing"
  /\ ~ForEachGoesOn(commandLines, exitCodes)
  /\ pc' = "installed"
  /\ regathered' = after
  /\ newUnsatisfiedDeps' = NewUnsatisfiedDeps(after, nosolution)
  /\ installsInRun' = Count(installsInRun)
  /\ UNCHANGED <<exitCode, options, packageManager, recursiveCount, passVars,
                 solutionVars, printed, executed, exitCodes, reentries,
                 noSolutionSeen>>

NextExec ==
  \/ \E code \in ExitCodes : Exec(code)
  \/ \E after \in GatheringsAt("installing") : Regather(after)

SpecExec == InitExec /\ [][NextExec]_vars

\* C16: within installPeerDependencies the commands are run one at a time,
\* each exactly once and in the order of commandLines, the next one also
\* after one that failed; the records are gathered again only when the last
\* command has returned, and no command runs in the step that reads them or
\* after it.
C16_CommandsThenRegather ==
  /\ [](/\ Len(executed) <= Len(commandLines)
        /\ executed = SubSeq(commandLines, 1, Len(executed))
        /\ Len(exitCodes) = Len(executed)
        /\ pc = "installing" => regathered = <<>> /\ newUnsatisfiedDeps = <<>>
        /\ pc = "installed" => executed = commandLines)
  /\ [][/\ executed' # executed
             => /\ pc = "installing" /\ pc' = "installing"
                /\ executed' = Append(executed, commandLines[Len(executed) + 1])
                /\ regathered' = regathered
                /\ newUnsatisfiedDeps' = newUnsatisfiedDeps
        /\ pc' # pc
             => /\ pc = "installing" /\ pc' = "installed"
                /\ executed = commandLines
                /\ executed' = executed]_vars

\* Three commands of which the first failed were all run before the records
\* were gathered again.
C16_Witness ==
  /\ pc = "installed"
  /\ Len(commandLines) >= 2
  /\ exitCodes[1] # 0
  /\ executed = commandLines
  /\ regathered # <<>>
====
